---- MODULE Spec2Model ----
(***************************************************************************)
(* Region-mask authoring of the two editors of D1AIstudio:                 *)
(*   EditView          (src/unnamed/part_000, the full-page editor)        *)
(*   ImageDetailModal  (src/components/ImageDetailModal.tsx, the modal)    *)
(* Rectangles are records [x, y, w, h] over the integers.                  *)
(***************************************************************************)
EXTENDS Integers, Sequences, FiniteSets, TLC

VARIABLES
    ra, rb, res,         \* subtractRect under test: arguments and result
    subDone,             \* TRUE once res holds subtractRect(ra, rb)
    normRect, normImg,   \* normalization under test: rectangle and image size
    normZone, normDone,  \* ... its edit zone, once normDone
    scanCanvas, scanBox, \* bounding-box scan under test: surface and result
    scanDone,
    strokeFrom, strokeTo,        \* paint-then-erase under test: the path,
    strokeBrush, strokeEraser,   \* the two line widths,
    strokeCanvas, strokePainted, strokeStep,    \* the surface and the strokes done so far
    permS, permP,        \* order independence under test: a SelectionSet and a reordering
    permB, permCanvas,   \* the rectangle subtracted and the PaintSurface at submission
    permOut, permDone,   \* the results on both orders, and which of them are computed
    activeRequests,      \* GenerateView: handleGenerate runs in flight
    sessions,            \* GenerateView: generatedImages of the session, in React state
    sessionDb,           \* generatedImages of the session record in the store
    requests,            \* each handleGenerate run: its position and its closure
    genHist,             \* history: runs started, images saved so far
    variant,             \* "page" (EditView) or "modal" (ImageDetailModal)
    sourceImage,         \* page: "none" or "file"
    isOpen,              \* modal: the isOpen prop
    activeTool,          \* "select", "brush", "eraser", "pan" (page only)
    isDrawing,           \* page: isDrawing; modal: isDragging
    selections,          \* the SelectionSet: a sequence of rectangles
    currentSelection,    \* the provisional rectangle, or NullRect
    dragStart,           \* the drag anchor
    lastMousePos,        \* lastMousePos.current
    isAltPressed, isShiftPressed, isSpacePressed,
    canvas,              \* the PaintSurface: the sample pixels with alpha > 0
    ptr,                 \* history: the point of the last pointer-down or -move
    gest,                \* history: the select drag in progress or just ended
    up,                  \* history: what the last pointer-up found
    stale,               \* history: the provisional rectangle was abandoned
    loading,             \* page: loading; modal: isProcessing
    error,               \* "none", "noRegion" (select or paint an area), "failed"
    resultImage,         \* page: TRUE when resultImage is set
    consumed,            \* addConsumedCredits calls, in units of PRICE_PER_IMAGE_FLASH
    editCalls,           \* calls made to editImage / onGenerateEdit
    inFlight,            \* the awaited external call has not settled
    submit,              \* history: what the last submission found
    zones                \* the EDIT_ZONE annotations of the last submission

-----------------------------------------------------------------------------
(* Bounds of the pure-function specification.                              *)
MaxPos == 2          \* x and y of a test rectangle range over 0..MaxPos
MaxDim == 3          \* w and h of a test rectangle range over 0..MaxDim

Max(a, b) == IF a >= b THEN a ELSE b
Min(a, b) == IF a <= b THEN a ELSE b
Abs(a) == IF a >= 0 THEN a ELSE 0 - a

Rect(x, y, w, h) == [x |-> x, y |-> y, w |-> w, h |-> h]

-----------------------------------------------------------------------------
(* subtractRect of the full-page editor, and the variants of it that the   *)
(* checks below substitute for it.                                         *)

\* Variant: edge-touching rectangles are not treated as disjoint.
subtractRectTouching(r1, r2) ==
    LET x1 == Max(r1.x, r2.x)
        y1 == Max(r1.y, r2.y)
        x2 == Min(r1.x + r1.w, r2.x + r2.w)
        y2 == Min(r1.y + r1.h, r2.y + r2.h)
    IN  IF x1 > x2 \/ y1 > y2
        THEN <<r1>>
        ELSE (IF r1.y < y1 THEN <<Rect(r1.x, r1.y, r1.w, y1 - r1.y)>> ELSE <<>>)
          \o (IF r1.y + r1.h > y2 THEN <<Rect(r1.x, y2, r1.w, (r1.y + r1.h) - y2)>> ELSE <<>>)
          \o (IF r1.x < x1 THEN <<Rect(r1.x, y1, x1 - r1.x, y2 - y1)>> ELSE <<>>)
          \o (IF r1.x + r1.w > x2 THEN <<Rect(x2, y1, (r1.x + r1.w) - x2, y2 - y1)>> ELSE <<>>)

\* Variant: the top and bottom strips are emitted even when empty.
subtractRectEmptyStrips(r1, r2) ==
    LET x1 == Max(r1.x, r2.x)
        y1 == Max(r1.y, r2.y)
        x2 == Min(r1.x + r1.w, r2.x + r2.w)
        y2 == Min(r1.y + r1.h, r2.y + r2.h)
    IN  IF x1 >= x2 \/ y1 >= y2
        THEN <<r1>>
        ELSE (IF r1.y <= y1 THEN <<Rect(r1.x, r1.y, r1.w, y1 - r1.y)>> ELSE <<>>)
          \o (IF r1.y + r1.h >= y2 THEN <<Rect(r1.x, y2, r1.w, (r1.y + r1.h) - y2)>> ELSE <<>>)
          \o (IF r1.x < x1 THEN <<Rect(r1.x, y1, x1 - r1.x, y2 - y1)>> ELSE <<>>)
          \o (IF r1.x + r1.w > x2 THEN <<Rect(x2, y1, (r1.x + r1.w) - x2, y2 - y1)>> ELSE <<>>)

\* Variant: the left and right strips span the full height of r1.
subtractRectUnclamped(r1, r2) ==
    LET x1 == Max(r1.x, r2.x)
        y1 == Max(r1.y, r2.y)
        x2 == Min(r1.x + r1.w, r2.x + r2.w)
        y2 == Min(r1.y + r1.h, r2.y + r2.h)
    IN  IF x1 >= x2 \/ y1 >= y2
        THEN <<r1>>
        ELSE (IF r1.y < y1 THEN <<Rect(r1.x, r1.y, r1.w, y1 - r1.y)>> ELSE <<>>)
          \o (IF r1.y + r1.h > y2 THEN <<Rect(r1.x, y2, r1.w, (r1.y + r1.h) - y2)>> ELSE <<>>)
          \o (IF r1.x < x1 THEN <<Rect(r1.x, r1.y, x1 - r1.x, r1.h)>> ELSE <<>>)
          \o (IF r1.x + r1.w > x2 THEN <<Rect(x2, r1.y, (r1.x + r1.w) - x2, r1.h)>> ELSE <<>>)

\* Variant: the left and right strips come before the top and bottom strips.
subtractRectSidesFirst(r1, r2) ==
    LET x1 == Max(r1.x, r2.x)
        y1 == Max(r1.y, r2.y)
        x2 == Min(r1.x + r1.w, r2.x + r2.w)
        y2 == Min(r1.y + r1.h, r2.y + r2.h)
    IN  IF x1 >= x2 \/ y1 >= y2
        THEN <<r1>>
        ELSE (IF r1.x < x1 THEN <<Rect(r1.x, y1, x1 - r1.x, y2 - y1)>> ELSE <<>>)
          \o (IF r1.x + r1.w > x2 THEN <<Rect(x2, y1, (r1.x + r1.w) - x2, y2 - y1)>> ELSE <<>>)
          \o (IF r1.y < y1 THEN <<Rect(r1.x, r1.y, r1.w, y1 - r1.y)>> ELSE <<>>)
          \o (IF r1.y + r1.h > y2 THEN <<Rect(r1.x, y2, r1.w, (r1.y + r1.h) - y2)>> ELSE <<>>)

\* part_000:20-37
subtractRect(r1, r2) ==
    LET x1 == Max(r1.x, r2.x)
        y1 == Max(r1.y, r2.y)
        x2 == Min(r1.x + r1.w, r2.x + r2.w)
        y2 == Min(r1.y + r1.h, r2.y + r2.h)
    IN  IF x1 >= x2 \/ y1 >= y2
        THEN <<r1>>
        ELSE (IF r1.y < y1 THEN <<Rect(r1.x, r1.y, r1.w, y1 - r1.y)>> ELSE <<>>)
          \o (IF r1.y + r1.h > y2 THEN <<Rect(r1.x, y2, r1.w, (r1.y + r1.h) - y2)>> ELSE <<>>)
          \o (IF r1.x < x1 THEN <<Rect(r1.x, y1, x1 - r1.x, y2 - y1)>> ELSE <<>>)
          \o (IF r1.x + r1.w > x2 THEN <<Rect(x2, y1, (r1.x + r1.w) - x2, y2 - y1)>> ELSE <<>>)

-----------------------------------------------------------------------------
(* The interaction state of one editor.                                    *)

subVars == <<ra, rb, res, subDone>>
normVars == <<normRect, normImg, normZone, normDone>>
scanVars == <<scanCanvas, scanBox, scanDone>>
strokeVars ==
    <<strokeFrom, strokeTo, strokeBrush, strokeEraser, strokeCanvas, strokePainted,
      strokeStep>>
permVars == <<permS, permP, permB, permCanvas, permOut, permDone>>
genVars == <<activeRequests, sessions, sessionDb, requests, genHist>>
pureVars == <<subVars, normVars, scanVars, strokeVars, permVars, genVars>>
keyVars == <<isAltPressed, isShiftPressed, isSpacePressed>>
dragVars == <<isDrawing, currentSelection, dragStart, lastMousePos>>
histVars == <<ptr, gest, up, stale>>
editorVars ==
    <<variant, sourceImage, isOpen, activeTool, selections, canvas,
      dragVars, keyVars, histVars>>
editVars ==
    <<loading, error, resultImage, consumed, editCalls, inFlight, submit, zones>>
vars == <<pureVars, editorVars, editVars>>

MaxSel == 2          \* the SelectionSet holds at most MaxSel rectangles

Threshold == 5       \* the noise threshold of handleMouseUp

Pt(x, y) == [x |-> x, y |-> y]

\* "No rectangle": the null value of currentSelection.
NullRect == Rect(0 - 1, 0 - 1, 0 - 1, 0 - 1)

\* The image of the page editor: shown at half its natural size.
Image == [naturalWidth |-> 20, naturalHeight |-> 20, width |-> 10, height |-> 10]

\* Pointer positions relative to the container, already divided by the zoom
\* scale (visualX, visualY).
PagePoints  == { Pt(0, 0), Pt(2, 7), Pt(10, 10) }
ModalPoints == { Pt(0, 0), Pt(4, 14), Pt(20, 20) }

Tools == { "select", "brush", "eraser", "pan" }
ModalTools == { "select", "brush", "eraser" }

\* Variant: the pointer is mapped whether the image has a layout or not.
getPointerPosUnguarded(e, displayed) ==
    Pt(e.x * (Image.naturalWidth \div Image.width),
       e.y * (Image.naturalHeight \div Image.height))

\* part_000:137-158. displayed is FALSE when the image has no layout yet
\* (displayedWidth or displayedHeight is 0).
getPointerPos(e, displayed) ==
    IF ~displayed
    THEN Pt(0, 0)
    ELSE Pt(e.x * (Image.naturalWidth \div Image.width),
            e.y * (Image.naturalHeight \div Image.height))

\* Variant: the width keeps its sign.
dragRectSigned(start, cur) ==
    Rect(Min(start.x, cur.x), Min(start.y, cur.y),
         cur.x - start.x, Abs(cur.y - start.y))

\* part_000:190-194
dragRect(start, cur) ==
    Rect(Min(start.x, cur.x), Min(start.y, cur.y),
         Abs(cur.x - start.x), Abs(cur.y - start.y))

\* ImageDetailModal.tsx:178-183
modalDragRect(start, cur) ==
    Rect(Min(start.x, cur.x), Min(start.y, cur.y),
         Abs(cur.x - start.x), Abs(cur.y - start.y))

\* ImageDetailModal.tsx:22-39
modalSubtractRect(r1, r2) ==
    LET x1 == Max(r1.x, r2.x)
        y1 == Max(r1.y, r2.y)
        x2 == Min(r1.x + r1.w, r2.x + r2.w)
        y2 == Min(r1.y + r1.h, r2.y + r2.h)
    IN  IF x1 >= x2 \/ y1 >= y2
        THEN <<r1>>
        ELSE (IF r1.y < y1 THEN <<Rect(r1.x, r1.y, r1.w, y1 - r1.y)>> ELSE <<>>)
          \o (IF r1.y + r1.h > y2 THEN <<Rect(r1.x, y2, r1.w, (r1.y + r1.h) - y2)>> ELSE <<>>)
          \o (IF r1.x < x1 THEN <<Rect(r1.x, y1, x1 - r1.x, y2 - y1)>> ELSE <<>>)
          \o (IF r1.x + r1.w > x2 THEN <<Rect(x2, y1, (r1.x + r1.w) - x2, y2 - y1)>> ELSE <<>>)

\* Variant: only the first selection is cut, the others are kept whole.
subtractFirst(sel, cur) ==
    IF sel = <<>> THEN <<>>
    ELSE subtractRect(Head(sel), cur) \o Tail(sel)

\* part_000:205-208: the loop over the existing selections.
RECURSIVE subtractAll(_, _)
subtractAll(sel, cur) ==
    IF sel = <<>> THEN <<>>
    ELSE subtractRect(Head(sel), cur) \o subtractAll(Tail(sel), cur)

\* ImageDetailModal.tsx:194-197
RECURSIVE modalSubtractAll(_, _)
modalSubtractAll(sel, cur) ==
    IF sel = <<>> THEN <<>>
    ELSE modalSubtractRect(Head(sel), cur) \o modalSubtractAll(Tail(sel), cur)

\* Variant: a rectangle is committed when either side exceeds the threshold.
commitEitherSide(sel, cur, alt) ==
    IF cur.w > Threshold \/ cur.h > Threshold
    THEN IF alt THEN subtractAll(sel, cur) ELSE Append(sel, cur)
    ELSE sel

\* Variant: a committed rectangle replaces the set instead of being appended.
commitReplacing(sel, cur, alt) ==
    IF cur.w > Threshold /\ cur.h > Threshold
    THEN IF alt THEN subtractAll(sel, cur) ELSE <<cur>>
    ELSE sel

\* Variant: the subtraction walks the existing selections in reverse.
commitReversed(sel, cur, alt) ==
    IF cur.w > Threshold /\ cur.h > Threshold
    THEN IF alt
         THEN subtractAll([i \in 1..Len(sel) |-> sel[Len(sel) + 1 - i]], cur)
         ELSE Append(sel, cur)
    ELSE sel

\* part_000:203-213: the new value of selections at pointer-up.
commitSelection(sel, cur, alt) ==
    IF cur.w > Threshold /\ cur.h > Threshold
    THEN IF alt THEN subtractAll(sel, cur) ELSE Append(sel, cur)
    ELSE sel

\* ImageDetailModal.tsx:192-202
modalCommitSelection(sel, cur, alt) ==
    IF cur.w > Threshold /\ cur.h > Threshold
    THEN IF alt THEN modalSubtractAll(sel, cur) ELSE Append(sel, cur)
    ELSE sel

\* Variant: the set is cleared at pointer-down whatever the modifiers.
selectionsOnDownAlways(sel, shift, alt) == <<>>

\* Variant: the set is never cleared at pointer-down.
selectionsOnDownNever(sel, shift, alt) == sel

\* part_000:168-170: the new value of selections at pointer-down (select tool).
selectionsOnDown(sel, shift, alt) ==
    IF ~shift /\ ~alt THEN <<>> ELSE sel

\* ImageDetailModal.tsx:142-144
modalSelectionsOnDown(sel, shiftKey, alt, space) ==
    IF ~shiftKey /\ ~alt /\ ~space THEN <<>> ELSE sel

\* The pixels of the canvas whose alpha the model tracks. Pixel q is the unit
\* square from (q.x, q.y) to (q.x + 1, q.y + 1).
SamplePixels == { Pt(0, 0), Pt(15, 15) }

PageBrushSize == 30          \* useState(30): one size for brush and eraser
ModalBrushSize == 20         \* useState(20)
ModalEraserSize == 30        \* useState(30)

\* part_000:223-228: brushSize times naturalWidth / width.
pageLineWidth(size) == size * (Image.naturalWidth \div Image.width)

PageLineWidth == pageLineWidth(PageBrushSize)

\* The line width of a page stroke. When the image has no layout the scale
\* factor is not finite, the assignment to ctx.lineWidth is ignored and the
\* context keeps the width it had: the initial 1 or the last one set.
PageLineWidths(displayed) ==
    IF displayed THEN { PageLineWidth } ELSE { 1, PageLineWidth }

\* ImageDetailModal.tsx:219, 223
ModalLineWidth(tool) == IF tool = "brush" THEN ModalBrushSize ELSE ModalEraserSize

\* Point c is within lineWidth / 2 of the segment from p to q (strictly closer
\* when strict): the stroke of a line with round caps and joins.
nearSegment(c, p, q, lineWidth, strict) ==
    LET dx == q.x - p.x
        dy == q.y - p.y
        dd == dx * dx + dy * dy
        t == (c.x - p.x) * dx + (c.y - p.y) * dy
        e == IF dd = 0 \/ t <= 0 THEN p ELSE q
        d2 == (c.x - e.x) * (c.x - e.x) + (c.y - e.y) * (c.y - e.y)
        cross == (c.x - p.x) * dy - (c.y - p.y) * dx
    IN  IF dd = 0 \/ t <= 0 \/ t >= dd
        THEN IF strict THEN 4 * d2 < lineWidth * lineWidth
                       ELSE 4 * d2 <= lineWidth * lineWidth
        ELSE IF strict THEN 4 * cross * cross < lineWidth * lineWidth * dd
                       ELSE 4 * cross * cross <= lineWidth * lineWidth * dd

Corners(q) == { Pt(q.x, q.y), Pt(q.x + 1, q.y), Pt(q.x, q.y + 1), Pt(q.x + 1, q.y + 1) }

\* The sample pixels that lie wholly inside the stroke from prev to cur.
stroke(prev, cur, lineWidth) ==
    { q \in SamplePixels :
        \A c \in Corners(q) : nearSegment(c, prev, cur, lineWidth, FALSE) }

\* The sample pixels the stroke covers in part: the rasterizer gives them a
\* coverage between 0 and 1.
strokeEdge(prev, cur, lineWidth) ==
    { q \in SamplePixels :
        \E c \in Corners(q) : nearSegment(c, prev, cur, lineWidth, TRUE) }
    \ stroke(prev, cur, lineWidth)

\* The pixels a stroke takes full effect on. hit: the partly covered pixels on
\* which the composite rounds to the full effect (alpha > 0 for source-over,
\* alpha 0 for destination-out); which ones is up to the rasterizer.
strokePixels(prev, cur, lineWidth, hit) ==
    stroke(prev, cur, lineWidth) \cup (strokeEdge(prev, cur, lineWidth) \cap hit)

\* part_000:219-243: the brush composites source-over, any other tool
\* destination-out.
draw(cv, tool, x, prev, lineWidth, hit) ==
    IF tool = "brush"
    THEN cv \cup strokePixels(prev, x, lineWidth, hit)
    ELSE cv \ strokePixels(prev, x, lineWidth, hit)

\* ImageDetailModal.tsx:209-236
modalDraw(cv, tool, x, prev, isStart, lineWidth, hit) ==
    LET from == IF isStart THEN x ELSE prev
    IN  IF tool = "brush"
        THEN cv \cup strokePixels(from, x, lineWidth, hit)
        ELSE cv \ strokePixels(from, x, lineWidth, hit)

-----------------------------------------------------------------------------
(* History variables: they record what a claim about a whole gesture needs *)
(* and never influence the editor.                                         *)

NoGest == [on |-> FALSE, sel |-> <<>>, modAtDown |-> FALSE, noMod |-> FALSE,
           shiftOnly |-> FALSE, noLayout |-> FALSE]
NoUp == [done |-> FALSE, sel |-> <<>>, rect |-> NullRect, alt |-> FALSE,
         select |-> FALSE, stale |-> FALSE]
NoSubmit == [done |-> FALSE, empty |-> FALSE, calls |-> 0, consumed |-> 0,
             sel |-> <<>>, cv |-> {}, cleared |-> FALSE]

\* known: the last event was a pointer-down or pointer-move at pos and a
\* provisional rectangle exists after it; routed: the handler passed that event
\* to the select tool; repeat: the last event was a key-down flagged as repeat;
\* cleared: the last event of the editor was the user's clear or a change of
\* the source image.
NoPtr == [known |-> FALSE, pos |-> Pt(0, 0), routed |-> FALSE, repeat |-> FALSE,
          cleared |-> FALSE]
ptrAt(pos, provisional, routed) ==
    IF provisional # NullRect
    THEN [NoPtr EXCEPT !.known = TRUE, !.pos = pos, !.routed = routed]
    ELSE NoPtr
keyAt(repeat) == [NoPtr EXCEPT !.repeat = repeat]
Cleared == [NoPtr EXCEPT !.cleared = TRUE]

\* A select drag begins. sel: the SelectionSet before the pointer-down;
\* modAtDown: a modifier was held at the pointer-down (the modal reads Shift from
\* the event); noMod: no modifier was held at any point so far; shiftOnly: Shift
\* was held, and Alt was not, at every point so far.
gestBegin(shiftKey) ==
    LET shift == isShiftPressed \/ shiftKey IN
    [on |-> TRUE, sel |-> selections,
     modAtDown |-> (isAltPressed \/ shift \/ isSpacePressed),
     noMod |-> ~(isAltPressed \/ shift \/ isSpacePressed),
     shiftOnly |-> (shift /\ ~isAltPressed), noLayout |-> FALSE]

\* noLayout: every pointer event of the drag so far found the image without
\* layout (getPointerPos took the branch of part_000:147).
gestBeginAt(displayed) == [gestBegin(FALSE) EXCEPT !.noLayout = ~displayed]

\* A key-down of k (repeat or not) shows k held; a key-up shows it released.
gestKeyDown(k) ==
    IF gest.on /\ isDrawing
    THEN [gest EXCEPT !.noMod = FALSE,
                      !.shiftOnly = @ /\ k # "Alt"]
    ELSE NoGest
gestKeyUp(k) ==
    IF gest.on /\ isDrawing
    THEN [gest EXCEPT !.shiftOnly = @ /\ k # "Shift"]
    ELSE NoGest
gestKeep == IF gest.on /\ isDrawing THEN gest ELSE NoGest
gestMoveAt(displayed) == [gestKeep EXCEPT !.noLayout = @ /\ ~displayed]

\* select: the pointer-up found a drag of the select tool to commit or drop.
upRecord(select) ==
    [done |-> TRUE, sel |-> selections, rect |-> currentSelection,
     alt |-> isAltPressed, select |-> select, stale |-> stale]

\* The provisional rectangle is abandoned when the tool is switched to t, or
\* when a new drag begins, while it is in progress; it stays so until a
\* pointer-down of the select tool replaces it or a pointer-up ends it.
staleOnTool(t) == stale \/ (t # activeTool /\ isDrawing /\ currentSelection # NullRect)
staleOnDown ==
    IF activeTool = "select" THEN FALSE
    ELSE isDrawing /\ currentSelection # NullRect

-----------------------------------------------------------------------------
(* Initial state: the state after construction (useState initial values). *)

EditIdle ==
    /\ loading = FALSE
    /\ error = "none"
    /\ resultImage = FALSE
    /\ consumed = 0
    /\ editCalls = 0
    /\ inFlight = FALSE
    /\ submit = NoSubmit
    /\ zones = <<>>

EditorInit(v) ==
    /\ variant = v
    /\ sourceImage = "none"
    /\ isOpen = FALSE
    /\ activeTool = "select"
    /\ isDrawing = FALSE
    /\ selections = <<>>
    /\ currentSelection = NullRect
    /\ dragStart = Pt(0, 0)
    /\ lastMousePos = Pt(0, 0)
    /\ isAltPressed = FALSE
    /\ isShiftPressed = FALSE
    /\ isSpacePressed = FALSE
    /\ canvas = {}
    /\ ptr = NoPtr
    /\ gest = NoGest
    /\ up = NoUp
    /\ stale = FALSE
    /\ EditIdle

EditorIdle == EditorInit("page")

SubIdle ==
    /\ ra = Rect(0, 0, 0, 0)
    /\ rb = Rect(0, 0, 0, 0)
    /\ res = <<>>
    /\ subDone = FALSE

NormIdle ==
    /\ normRect = Rect(0, 0, 0, 0)
    /\ normImg = [w |-> 1, h |-> 1]
    /\ normZone = <<>>
    /\ normDone = FALSE

ScanIdle ==
    /\ scanCanvas = {}
    /\ scanBox = NullRect
    /\ scanDone = FALSE

MAX_CONCURRENT == 2   \* part_001:44
MaxGen == 3           \* handleGenerate runs started in one behaviour

Slots == 1..MAX_CONCURRENT

\* A run of handleGenerate that is not in progress.
NoRequest == [pc |-> "idle", snap |-> <<>>, image |-> 0]
NoGenHist == [started |-> 0, saved |-> {}, overlapped |-> FALSE]

GenIdle ==
    /\ activeRequests = 0
    /\ sessions = <<>>
    /\ sessionDb = <<>>
    /\ requests = [r \in Slots |-> NoRequest]
    /\ genHist = NoGenHist

NoPermOut == [commitS |-> <<>>, commitP |-> <<>>, zonesS |-> <<>>, zonesP |-> <<>>]

PermIdle ==
    /\ permS = <<>>
    /\ permP = <<>>
    /\ permB = NullRect
    /\ permCanvas = {}
    /\ permOut = NoPermOut
    /\ permDone = {}

StrokeIdle ==
    /\ strokeFrom = Pt(0, 0)
    /\ strokeTo = Pt(0, 0)
    /\ strokeBrush = 0
    /\ strokeEraser = 0
    /\ strokeCanvas = {}
    /\ strokePainted = {}
    /\ strokeStep = 0

Init ==
    /\ SubIdle
    /\ NormIdle
    /\ ScanIdle
    /\ StrokeIdle
    /\ PermIdle
    /\ GenIdle
    /\ \E v \in {"page", "modal"} : EditorInit(v)

-----------------------------------------------------------------------------
(* The full-page editor (EditView).                                        *)

Keys == { "Alt", "Shift", "Space" }

\* part_000:160-175
PageMouseDown ==
    \E e \in PagePoints, displayed \in BOOLEAN :
      LET pos == getPointerPos(e, displayed) IN
        /\ variant = "page"
        /\ sourceImage = "file"
        /\ up' = NoUp
        /\ stale' = IF activeTool = "pan" THEN stale ELSE staleOnDown
        /\ UNCHANGED <<pureVars, editVars, variant, sourceImage, isOpen, activeTool, keyVars>>
        /\ IF activeTool = "pan"
           THEN /\ gest' = NoGest
                /\ UNCHANGED <<selections, canvas, dragVars>>
           ELSE /\ isDrawing' = TRUE
                /\ lastMousePos' = pos
                /\ dragStart' = pos
                /\ IF activeTool = "select"
                   THEN /\ selections' =
                              selectionsOnDown(selections, isShiftPressed, isAltPressed)
                        /\ currentSelection' = Rect(pos.x, pos.y, 0, 0)
                        /\ gest' = gestBeginAt(displayed)
                        /\ UNCHANGED canvas
                   ELSE /\ \E w \in PageLineWidths(displayed) :
                              \E hit \in SUBSET strokeEdge(pos, pos, w) :
                                canvas' = draw(canvas, activeTool, pos, pos, w, hit)
                        /\ gest' = NoGest
                        /\ UNCHANGED <<selections, currentSelection>>
        /\ ptr' = ptrAt(pos, currentSelection', activeTool = "select")

\* part_000:177-199
PageMouseMove ==
    \E e \in PagePoints, displayed \in BOOLEAN :
      LET pos == getPointerPos(e, displayed) IN
        /\ variant = "page"
        /\ sourceImage = "file"
        /\ up' = NoUp
        /\ stale' = stale
        /\ gest' = gestMoveAt(displayed)
        /\ UNCHANGED <<pureVars, editVars, variant, sourceImage, isOpen, activeTool, keyVars,
                       selections, isDrawing, dragStart>>
        /\ IF ~isDrawing \/ activeTool = "pan"
           THEN UNCHANGED <<canvas, currentSelection, lastMousePos>>
           ELSE IF activeTool = "select"
                THEN /\ currentSelection' = dragRect(dragStart, pos)
                     /\ UNCHANGED <<canvas, lastMousePos>>
                ELSE /\ \E w \in PageLineWidths(displayed) :
                           \E hit \in SUBSET strokeEdge(lastMousePos, pos, w) :
                             canvas' = draw(canvas, activeTool, pos, lastMousePos, w, hit)
                     /\ lastMousePos' = pos
                     /\ UNCHANGED currentSelection
        /\ ptr' = ptrAt(pos, currentSelection',
                       isDrawing /\ activeTool = "select")

\* Variant: the pointer-up commits the provisional rectangle whatever the tool.
pageMouseUpAnyTool ==
    LET select == isDrawing /\ currentSelection # NullRect IN
        /\ variant = "page"
        /\ sourceImage = "file"
        /\ selections' =
              IF select
              THEN commitSelection(selections, currentSelection, isAltPressed)
              ELSE selections
        /\ Len(selections') <= MaxSel
        /\ isDrawing' = FALSE
        /\ currentSelection' = NullRect
        /\ ptr' = NoPtr
        /\ up' = upRecord(select)
        /\ stale' = FALSE
        /\ gest' = gest
        /\ UNCHANGED <<pureVars, editVars, variant, sourceImage, isOpen, activeTool, keyVars,
                       canvas, dragStart, lastMousePos>>

\* part_000:201-217, bound to onMouseUp and to onMouseLeave (part_000:548-549).
pageMouseUp ==
    LET select == isDrawing /\ activeTool = "select" /\ currentSelection # NullRect IN
        /\ variant = "page"
        /\ sourceImage = "file"
        /\ selections' =
              IF select
              THEN commitSelection(selections, currentSelection, isAltPressed)
              ELSE selections
        /\ Len(selections') <= MaxSel
        /\ isDrawing' = FALSE
        /\ currentSelection' = NullRect
        /\ ptr' = NoPtr
        /\ up' = upRecord(select)
        /\ stale' = FALSE
        /\ gest' = gest
        /\ UNCHANGED <<pureVars, editVars, variant, sourceImage, isOpen, activeTool, keyVars,
                       canvas, dragStart, lastMousePos>>

PageMouseUp == pageMouseUp

PageMouseLeave == pageMouseUp

\* Variant: the key-down handler does not look at e.repeat.
pageKeyDownRepeating(k, repeat) ==
    /\ variant = "page"
    /\ isAltPressed' = IF k = "Alt" THEN TRUE ELSE isAltPressed
    /\ isShiftPressed' = IF k = "Shift" THEN TRUE ELSE isShiftPressed
    /\ ptr' = keyAt(repeat)
    /\ up' = NoUp
    /\ stale' = stale
    /\ gest' = gestKeyDown(k)
    /\ UNCHANGED <<pureVars, editVars, variant, sourceImage, isOpen, activeTool, selections,
                   canvas, dragVars, isSpacePressed>>

\* part_000:91-95: a key-down of k; repeat is e.repeat.
pageKeyDown(k, repeat) ==
    /\ variant = "page"
    /\ isAltPressed' = IF ~repeat /\ k = "Alt" THEN TRUE ELSE isAltPressed
    /\ isShiftPressed' = IF ~repeat /\ k = "Shift" THEN TRUE ELSE isShiftPressed
    /\ ptr' = keyAt(repeat)
    /\ up' = NoUp
    /\ stale' = stale
    /\ gest' = gestKeyDown(k)
    /\ UNCHANGED <<pureVars, editVars, variant, sourceImage, isOpen, activeTool, selections,
                   canvas, dragVars, isSpacePressed>>

PageKeyDown == \E k \in Keys, repeat \in BOOLEAN : pageKeyDown(k, repeat)

\* part_000:96-99: a key-up of k.
pageKeyUp(k) ==
    /\ variant = "page"
    /\ isAltPressed' = IF k = "Alt" THEN FALSE ELSE isAltPressed
    /\ isShiftPressed' = IF k = "Shift" THEN FALSE ELSE isShiftPressed
    /\ ptr' = NoPtr
    /\ up' = NoUp
    /\ stale' = stale
    /\ gest' = gestKeyUp(k)
    /\ UNCHANGED <<pureVars, editVars, variant, sourceImage, isOpen, activeTool, selections,
                   canvas, dragVars, isSpacePressed>>

PageKeyUp == \E k \in Keys : pageKeyUp(k)

\* part_000:420, 427, 434, 441
PageSetActiveTool ==
    \E t \in Tools :
        /\ variant = "page"
        /\ sourceImage = "file"
        /\ activeTool' = t
        /\ ptr' = NoPtr
        /\ up' = NoUp
        /\ stale' = staleOnTool(t)
        /\ gest' = NoGest
        /\ UNCHANGED <<pureVars, editVars, variant, sourceImage, isOpen, selections, canvas,
                       dragVars, keyVars>>

\* Variant: the clear button wipes the canvas only.
clearCanvasOnly ==
    /\ variant = "page"
    /\ sourceImage = "file"
    /\ canvas' = {}
    /\ selections' = selections
    /\ ptr' = Cleared
    /\ up' = NoUp
    /\ stale' = stale
    /\ gest' = NoGest
    /\ UNCHANGED <<pureVars, editVars, variant, sourceImage, isOpen, activeTool, dragVars, keyVars>>

\* part_000:245-249
clearCanvas ==
    /\ variant = "page"
    /\ sourceImage = "file"
    /\ canvas' = {}
    /\ selections' = <<>>
    /\ ptr' = Cleared
    /\ up' = NoUp
    /\ stale' = stale
    /\ gest' = NoGest
    /\ UNCHANGED <<pureVars, editVars, variant, sourceImage, isOpen, activeTool, dragVars, keyVars>>

\* part_000:118-124 and 126-133, then the effect of part_000:75-87. The upload
\* view is rendered only while there is no source image (part_000:358-374).
handleFileChange ==
    /\ variant = "page"
    /\ sourceImage = "none"
    /\ sourceImage' = "file"
    /\ selections' = <<>>
    /\ canvas' = {}
    /\ ptr' = Cleared
    /\ up' = NoUp
    /\ stale' = stale
    /\ gest' = NoGest
    /\ resultImage' = FALSE
    /\ UNCHANGED <<pureVars, variant, isOpen, activeTool, dragVars, keyVars,
                   loading, error, consumed, editCalls, inFlight, submit, zones>>

\* part_000:382 ("Start Over"): the editor, with its canvas element, unmounts.
StartOver ==
    /\ variant = "page"
    /\ sourceImage = "file"
    /\ sourceImage' = "none"
    /\ canvas' = {}
    /\ ptr' = NoPtr
    /\ up' = NoUp
    /\ stale' = stale
    /\ gest' = NoGest
    /\ UNCHANGED <<pureVars, editVars, variant, isOpen, activeTool, selections, dragVars, keyVars>>

\* part_000:109-116, the onLoad of the img element (part_000:512-519). The
\* element loads again whenever its src changes: the result image once it is
\* set, and the object URL of the source, which every render makes anew
\* (part_000:514). Assigning the canvas its size resets it.
handleImageLoad ==
    /\ variant = "page"
    /\ sourceImage = "file"
    /\ canvas' = {}
    /\ UNCHANGED <<pureVars, editVars, variant, sourceImage, isOpen, activeTool, selections,
                   dragVars, keyVars, histVars>>

-----------------------------------------------------------------------------
(* The modal editor (ImageDetailModal).                                    *)

\* ImageDetailModal.tsx:130-151
ModalMouseDown ==
    \E pos \in ModalPoints, shiftKey \in BOOLEAN :
        /\ variant = "modal"
        /\ isOpen
        /\ lastMousePos' = pos
        /\ dragStart' = pos
        /\ isDrawing' = TRUE
        /\ up' = NoUp
        /\ stale' = staleOnDown
        /\ UNCHANGED <<pureVars, editVars, variant, sourceImage, isOpen, activeTool, keyVars>>
        /\ IF activeTool = "select"
           THEN /\ selections' = modalSelectionsOnDown(selections, shiftKey,
                                                       isAltPressed, isSpacePressed)
                /\ currentSelection' = Rect(pos.x, pos.y, 0, 0)
                /\ gest' = gestBegin(shiftKey)
                /\ UNCHANGED canvas
           ELSE /\ \E hit \in SUBSET strokeEdge(pos, pos, ModalLineWidth(activeTool)) :
                      canvas' = IF ~isSpacePressed
                                THEN modalDraw(canvas, activeTool, pos, pos, TRUE,
                                               ModalLineWidth(activeTool), hit)
                                ELSE canvas
                /\ gest' = NoGest
                /\ UNCHANGED <<selections, currentSelection>>
        /\ ptr' = ptrAt(pos, currentSelection', activeTool = "select")

\* ImageDetailModal.tsx:153-187
ModalMouseMove ==
    \E pos \in ModalPoints :
        /\ variant = "modal"
        /\ isOpen
        /\ lastMousePos' = pos
        /\ up' = NoUp
        /\ stale' = stale
        /\ gest' = gestKeep
        /\ UNCHANGED <<pureVars, editVars, variant, sourceImage, isOpen, activeTool, keyVars,
                       selections, isDrawing, dragStart>>
        /\ IF ~isDrawing \/ isSpacePressed
           THEN UNCHANGED <<canvas, currentSelection>>
           ELSE IF activeTool = "select"
                THEN /\ currentSelection' = modalDragRect(dragStart, pos)
                     /\ UNCHANGED canvas
                ELSE /\ \E hit \in SUBSET strokeEdge(lastMousePos, pos, ModalLineWidth(activeTool)) :
                           canvas' = modalDraw(canvas, activeTool, pos, lastMousePos, FALSE,
                                               ModalLineWidth(activeTool), hit)
                     /\ UNCHANGED currentSelection
        /\ ptr' = ptrAt(pos, currentSelection',
                       isDrawing /\ ~isSpacePressed /\ activeTool = "select")

\* ImageDetailModal.tsx:189-207
ModalMouseUp ==
    LET select == isDrawing /\ activeTool = "select" /\ currentSelection # NullRect IN
        /\ variant = "modal"
        /\ isOpen
        /\ selections' =
              IF select
              THEN modalCommitSelection(selections, currentSelection, isAltPressed)
              ELSE selections
        /\ Len(selections') <= MaxSel
        /\ isDrawing' = FALSE
        /\ currentSelection' = NullRect
        /\ ptr' = NoPtr
        /\ up' = upRecord(select)
        /\ stale' = FALSE
        /\ gest' = gest
        /\ UNCHANGED <<pureVars, editVars, variant, sourceImage, isOpen, activeTool, keyVars,
                       canvas, dragStart, lastMousePos>>

\* ImageDetailModal.tsx:94-103: a key-down of k; repeat is e.repeat;
\* inTextarea: the focus is in the prompt field.
modalKeyDown(k, repeat, inTextarea) ==
    /\ variant = "modal"
    /\ isOpen
    /\ isSpacePressed' =
          IF ~repeat /\ k = "Space" /\ ~inTextarea THEN TRUE ELSE isSpacePressed
    /\ isAltPressed' = IF ~repeat /\ k = "Alt" THEN TRUE ELSE isAltPressed
    /\ ptr' = keyAt(repeat)
    /\ up' = NoUp
    /\ stale' = stale
    /\ gest' = gestKeyDown(k)
    /\ UNCHANGED <<pureVars, editVars, variant, sourceImage, isOpen, activeTool, selections,
                   canvas, dragVars, isShiftPressed>>

ModalKeyDown ==
    \E k \in Keys, repeat \in BOOLEAN, inTextarea \in BOOLEAN :
        modalKeyDown(k, repeat, inTextarea)

\* ImageDetailModal.tsx:104-107: a key-up of k.
modalKeyUp(k) ==
    /\ variant = "modal"
    /\ isOpen
    /\ isSpacePressed' = IF k = "Space" THEN FALSE ELSE isSpacePressed
    /\ isAltPressed' = IF k = "Alt" THEN FALSE ELSE isAltPressed
    /\ ptr' = NoPtr
    /\ up' = NoUp
    /\ stale' = stale
    /\ gest' = gestKeyUp(k)
    /\ UNCHANGED <<pureVars, editVars, variant, sourceImage, isOpen, activeTool, selections,
                   canvas, dragVars, isShiftPressed>>

ModalKeyUp == \E k \in Keys : modalKeyUp(k)

\* ImageDetailModal.tsx:331, 339, 347
ModalSetActiveTool ==
    \E t \in ModalTools :
        /\ variant = "modal"
        /\ isOpen
        /\ activeTool' = t
        /\ ptr' = NoPtr
        /\ up' = NoUp
        /\ stale' = staleOnTool(t)
        /\ gest' = NoGest
        /\ UNCHANGED <<pureVars, editVars, variant, sourceImage, isOpen, selections, canvas,
                       dragVars, keyVars>>

\* ImageDetailModal.tsx:76-90: the parent opens the modal on an image and the
\* reset effect runs.
OpenModal ==
    /\ variant = "modal"
    /\ ~isOpen
    /\ isOpen' = TRUE
    /\ selections' = <<>>
    /\ currentSelection' = NullRect
    /\ isSpacePressed' = FALSE
    /\ isAltPressed' = FALSE
    /\ activeTool' = "select"
    /\ canvas' = {}
    /\ ptr' = Cleared
    /\ up' = NoUp
    /\ stale' = FALSE
    /\ gest' = NoGest
    /\ UNCHANGED <<pureVars, editVars, variant, sourceImage, isDrawing, dragStart, lastMousePos,
                   isShiftPressed>>

\* ImageDetailModal.tsx:485 (onClose): the modal renders nothing and its canvas
\* element unmounts.
CloseModal ==
    /\ variant = "modal"
    /\ isOpen
    /\ isOpen' = FALSE
    /\ canvas' = {}
    /\ ptr' = NoPtr
    /\ up' = NoUp
    /\ stale' = stale
    /\ gest' = NoGest
    /\ UNCHANGED <<pureVars, editVars, variant, sourceImage, activeTool, selections, dragVars,
                   keyVars>>

Next ==
    \/ PageMouseDown
    \/ PageMouseMove
    \/ PageMouseUp
    \/ PageMouseLeave
    \/ PageKeyDown
    \/ PageKeyUp
    \/ PageSetActiveTool
    \/ clearCanvas
    \/ handleFileChange
    \/ ModalMouseDown
    \/ ModalMouseMove
    \/ ModalMouseUp
    \/ ModalKeyDown
    \/ ModalKeyUp
    \/ ModalSetActiveTool
    \/ OpenModal
    \/ StartOver
    \/ CloseModal
    \/ handleImageLoad

Spec == Init /\ [][Next]_vars

-----------------------------------------------------------------------------
(* Submission: handleEdit of the page editor and handleZoneEdit of the     *)
(* modal. SpecEdit starts from an editor that holds a mask and explores    *)
(* submissions, their outcomes and the clearing of the mask.               *)

MaxCalls == 1        \* at most MaxCalls external edit calls are started

RECURSIVE MinOf(_)
MinOf(S) == LET a == CHOOSE a \in S : TRUE
            IN  IF S = {a} THEN a ELSE Min(a, MinOf(S \ {a}))
RECURSIVE MaxOf(_)
MaxOf(S) == LET a == CHOOSE a \in S : TRUE
            IN  IF S = {a} THEN a ELSE Max(a, MaxOf(S \ {a}))

ScanStride == 5      \* part_000:265-266: y += 5, x += 5

\* The pixels of cv the page's scan reads.
scanned(cv) == { q \in cv : q.x % ScanStride = 0 /\ q.y % ScanStride = 0 }

\* Variant: the box is anchored at the origin.
getMaskBoundingBoxFromOrigin(cv) ==
    LET seen == scanned(cv)
    IN  IF seen = {} THEN NullRect
        ELSE Rect(0, 0, MaxOf({ q.x : q \in seen }), MaxOf({ q.y : q \in seen }))

\* part_000:253-280: the bounding box of the scanned pixels with alpha > 0,
\* or null.
getMaskBoundingBox(cv) ==
    LET seen == scanned(cv)
    IN  IF seen = {} THEN NullRect
        ELSE LET xs == { q.x : q \in seen }
                 ys == { q.y : q \in seen }
             IN  Rect(MinOf(xs), MinOf(ys), MaxOf(xs) - MinOf(xs), MaxOf(ys) - MinOf(ys))

\* ImageDetailModal.tsx:239-275
getCanvasBoundingBox(cv) ==
    IF cv = {} THEN NullRect
    ELSE LET xs == { q.x : q \in cv }
             ys == { q.y : q \in cv }
         IN  Rect(MinOf(xs), MinOf(ys), MaxOf(xs) - MinOf(xs), MaxOf(ys) - MinOf(ys))

\* Variant: the bounding box is pushed even when the scan found nothing.
allZonesAlwaysBox(sel, cv) == Append(sel, getMaskBoundingBox(cv))

\* Variant: the bounding box comes first.
allZonesBoxFirst(sel, cv) ==
    LET drawnRect == getMaskBoundingBox(cv)
    IN  IF drawnRect # NullRect THEN <<drawnRect>> \o sel ELSE sel

\* part_000:290-292
allZones(sel, cv) ==
    LET drawnRect == getMaskBoundingBox(cv)
    IN  IF drawnRect # NullRect THEN Append(sel, drawnRect) ELSE sel

\* ImageDetailModal.tsx:281-285
finalSelections(sel, cv) ==
    LET drawnRect == getCanvasBoundingBox(cv)
    IN  IF drawnRect # NullRect THEN Append(sel, drawnRect) ELSE sel

\* The image of the modal: the canvas has its displayed size
\* (ImageDetailModal.tsx:120-125).
ModalImage == [width |-> 20, height |-> 20]

\* Variant: the scale of the grid is 1024.
normalizeBinary(r, W, H) ==
    << (r.y * 1024) \div H, (r.x * 1024) \div W,
       ((r.y + r.h) * 1024) \div H, ((r.x + r.w) * 1024) \div W >>

\* Variant: y is divided by the width and x by the height.
normalizeSwapped(r, W, H) ==
    << (r.y * 1000) \div W, (r.x * 1000) \div H,
       ((r.y + r.h) * 1000) \div W, ((r.x + r.w) * 1000) \div H >>

\* part_000:300-303 and ImageDetailModal.tsx:301-304: (y1, x1, y2, x2) of one
\* rectangle, Math.floor((v / size) * 1000) for each of the four values.
normalize(r, W, H) ==
    << (r.y * 1000) \div H, (r.x * 1000) \div W,
       ((r.y + r.h) * 1000) \div H, ((r.x + r.w) * 1000) \div W >>

\* part_000:295-305: one annotation per zone, by the natural size of the image.
coordString(list) ==
    [ i \in 1..Len(list) |->
        normalize(list[i], Image.naturalWidth, Image.naturalHeight) ]

\* ImageDetailModal.tsx:294-306: by the displayed size of the image.
coordinateInstructions(list) ==
    [ i \in 1..Len(list) |-> normalize(list[i], ModalImage.width, ModalImage.height) ]

submitRecord ==
    [done |-> TRUE, empty |-> (selections = <<>> /\ canvas = {}),
     calls |-> editCalls, consumed |-> consumed,
     sel |-> selections, cv |-> canvas, cleared |-> ptr.cleared]

\* part_000:282-313, up to the await. The button is disabled while loading or
\* while the prompt is empty (part_000:612).
handleEdit ==
    /\ variant = "page"
    /\ sourceImage = "file"
    /\ ~loading
    /\ submit' = submitRecord
    /\ IF Len(allZones(selections, canvas)) > 0
       THEN /\ editCalls < MaxCalls
            /\ loading' = TRUE
            /\ error' = "none"
            /\ editCalls' = editCalls + 1
            /\ inFlight' = TRUE
            /\ zones' = coordString(allZones(selections, canvas))
       ELSE /\ error' = "noRegion"
            /\ loading' = FALSE
            /\ zones' = <<>>
            /\ UNCHANGED <<editCalls, inFlight>>
    /\ UNCHANGED <<pureVars, editorVars, resultImage, consumed>>

\* The ways the awaited editImage settles: a data URL, null, or a rejection.
EditOutcomes == { "image", "null", "throw" }

\* Variant: setLoading(false) follows the try block instead of sitting in a
\* finally clause, so a thrown error skips it.
editImageSettlesNoFinally(outcome) ==
    /\ variant = "page"
    /\ inFlight
    /\ inFlight' = FALSE
    /\ loading' = (outcome # "image")
    /\ submit' = NoSubmit
    /\ IF outcome = "image"
       THEN /\ consumed' = consumed + 1
            /\ resultImage' = TRUE
            /\ UNCHANGED error
       ELSE /\ error' = "failed"
            /\ UNCHANGED <<consumed, resultImage>>
    /\ UNCHANGED <<pureVars, editorVars, editCalls, zones>>

\* part_000:313-324, from the await on: the result is null or the call throws
\* (catch: setError), or the cost is added and the result image set; finally
\* setLoading(false).
editImageSettlesWith(outcome) ==
    /\ variant = "page"
    /\ inFlight
    /\ inFlight' = FALSE
    /\ loading' = FALSE
    /\ submit' = NoSubmit
    /\ IF outcome = "image"
       THEN /\ consumed' = consumed + 1
            /\ resultImage' = TRUE
            /\ UNCHANGED error
       ELSE /\ error' = "failed"
            /\ UNCHANGED <<consumed, resultImage>>
    /\ UNCHANGED <<pureVars, editorVars, editCalls, zones>>

\* part_000:313-324: editImage settles with an image, with null or by throwing.
editImageSettles == \E outcome \in EditOutcomes : editImageSettlesWith(outcome)

\* ImageDetailModal.tsx:277-310, up to the await. The button is disabled while
\* isProcessing or while the prompt is empty (ImageDetailModal.tsx:533).
handleZoneEdit ==
    /\ variant = "modal"
    /\ isOpen
    /\ ~loading
    /\ submit' = submitRecord
    /\ IF Len(finalSelections(selections, canvas)) = 0
       THEN /\ error' = "noRegion"
            /\ zones' = <<>>
            /\ UNCHANGED <<loading, editCalls, inFlight>>
       ELSE /\ editCalls < MaxCalls
            /\ loading' = TRUE
            /\ editCalls' = editCalls + 1
            /\ inFlight' = TRUE
            /\ zones' = coordinateInstructions(finalSelections(selections, canvas))
            /\ UNCHANGED error
    /\ UNCHANGED <<pureVars, editorVars, resultImage, consumed>>

\* ImageDetailModal.tsx:310-312: onGenerateEdit resolves, and the modal closes,
\* or it rejects and the rest of handleZoneEdit never runs.
onGenerateEditSettles ==
    \E outcome \in { "resolved", "rejected" } :
        /\ variant = "modal"
        /\ inFlight
        /\ inFlight' = FALSE
        /\ submit' = NoSubmit
        /\ IF outcome = "resolved"
           THEN /\ loading' = FALSE
                /\ isOpen' = FALSE
                /\ canvas' = {}
           ELSE UNCHANGED <<loading, isOpen, canvas>>
        /\ UNCHANGED <<pureVars, variant, sourceImage, activeTool, selections,
                       dragVars, keyVars, histVars,
                       error, resultImage, consumed, editCalls, zones>>

\* Points of the image a drag can start or end at.
EditPoints == ModalPoints \cup { Pt(10, 10) }

\* The rectangles one drag can commit: over the threshold on both sides.
DragRects ==
    { r \in { dragRect(p, q) : p \in EditPoints, q \in EditPoints } :
        r.w > Threshold /\ r.h > Threshold }

\* SelectionSets that drags build: rectangles appended with Shift, then at most
\* one subtraction with Alt.
AppendedMasks ==
    UNION { [1..n -> DragRects] : n \in 0..MaxSel }

Masks ==
    AppendedMasks \cup
    { m \in { subtractAll(a, d) : a \in AppendedMasks, d \in DragRects } :
        Len(m) <= MaxSel }

InitEdit ==
    /\ SubIdle
    /\ NormIdle
    /\ ScanIdle
    /\ StrokeIdle
    /\ PermIdle
    /\ GenIdle
    /\ EditIdle
    /\ variant \in { "page", "modal" }
    /\ sourceImage = IF variant = "page" THEN "file" ELSE "none"
    /\ isOpen = (variant = "modal")
    /\ activeTool = "select"
    /\ isDrawing = FALSE
    /\ selections \in Masks
    /\ currentSelection = NullRect
    /\ dragStart = Pt(0, 0)
    /\ lastMousePos = Pt(0, 0)
    /\ isAltPressed = FALSE
    /\ isShiftPressed = FALSE
    /\ isSpacePressed = FALSE
    /\ canvas \in SUBSET SamplePixels
    /\ ptr = NoPtr
    /\ gest = NoGest
    /\ up = NoUp
    /\ stale = FALSE

NextEdit ==
    \/ handleEdit
    \/ editImageSettles
    \/ handleZoneEdit
    \/ onGenerateEditSettles
    \/ clearCanvas
    \/ OpenModal
    \/ StartOver
    \/ handleFileChange
    \/ handleImageLoad

SpecEdit == InitEdit /\ [][NextEdit]_vars

-----------------------------------------------------------------------------
(* SpecNorm: normalization applied to the rectangles of every image of a   *)
(* bounded size.                                                           *)

MaxImg == 4          \* the image is at most MaxImg wide and high

NormRects(W, H) ==
    { Rect(x, y, w, h) : x \in {0, W \div 2}, y \in {0, H \div 2},
                         w \in {W \div 2, W}, h \in {H \div 2, H} }

InitNorm ==
    /\ normImg \in [w : 1..MaxImg, h : 1..MaxImg]
    /\ normRect \in { r \in NormRects(normImg.w, normImg.h) :
                         r.x + r.w <= normImg.w /\ r.y + r.h <= normImg.h }
    /\ normZone = <<>>
    /\ normDone = FALSE
    /\ SubIdle
    /\ ScanIdle
    /\ StrokeIdle
    /\ PermIdle
    /\ GenIdle
    /\ EditorIdle

ApplyNormalize ==
    /\ ~normDone
    /\ normZone' = normalize(normRect, normImg.w, normImg.h)
    /\ normDone' = TRUE
    /\ UNCHANGED <<normRect, normImg, subVars, scanVars, strokeVars,
                   editorVars, editVars, permVars, genVars>>

NextNorm == ApplyNormalize

SpecNorm == InitNorm /\ [][NextNorm]_vars

-----------------------------------------------------------------------------
(* SpecScan: the bounding-box scan of either editor applied to every       *)
(* surface with a bounded number of opaque pixels.                         *)

MaxPaint == 3        \* at most MaxPaint opaque pixels on the scanned surface

ScanCoords == { 0, 2, 5, 19 }

ScanPixels == { Pt(x, y) : x \in ScanCoords, y \in ScanCoords }

InitScan ==
    /\ scanCanvas \in { cv \in SUBSET ScanPixels : Cardinality(cv) <= MaxPaint }
    /\ scanBox = NullRect
    /\ scanDone = FALSE
    /\ SubIdle
    /\ NormIdle
    /\ StrokeIdle
    /\ PermIdle
    /\ GenIdle
    /\ \E v \in {"page", "modal"} : EditorInit(v)

PageScan ==
    /\ variant = "page"
    /\ ~scanDone
    /\ scanBox' = getMaskBoundingBox(scanCanvas)
    /\ scanDone' = TRUE
    /\ UNCHANGED <<scanCanvas, subVars, normVars, strokeVars, editorVars, editVars, permVars, genVars>>

ModalScan ==
    /\ variant = "modal"
    /\ ~scanDone
    /\ scanBox' = getCanvasBoundingBox(scanCanvas)
    /\ scanDone' = TRUE
    /\ UNCHANGED <<scanCanvas, subVars, normVars, strokeVars, editorVars, editVars, permVars, genVars>>

NextScan == PageScan \/ ModalScan

SpecScan == InitScan /\ [][NextScan]_vars

\* b encloses every pixel of S and no smaller rectangle does: each of its
\* four sides passes through a pixel of S.
MinimalBox(b, S) ==
    /\ \A q \in S : /\ b.x <= q.x /\ q.x <= b.x + b.w
                    /\ b.y <= q.y /\ q.y <= b.y + b.h
    /\ \E q \in S : q.x = b.x
    /\ \E q \in S : q.x = b.x + b.w
    /\ \E q \in S : q.y = b.y
    /\ \E q \in S : q.y = b.y + b.h

\* C14 (as stated): the scan returns the minimal rectangle enclosing every
\* pixel with non-zero alpha, and null exactly when the surface is entirely
\* transparent.
C14_ScanEnclosesEveryOpaquePixel ==
    scanDone =>
        /\ (scanBox = NullRect) <=> (scanCanvas = {})
        /\ scanBox # NullRect => MinimalBox(scanBox, scanCanvas)

\* The pixels the scan of the current editor reads.
ScannedPixels ==
    IF variant = "page" THEN scanned(scanCanvas) ELSE scanCanvas

\* C14 (amended): the scan returns the minimal rectangle enclosing every
\* pixel with non-zero alpha among those it reads (every fifth pixel in each
\* axis on the page, every pixel in the modal), and null exactly when none
\* of the pixels it reads has non-zero alpha.
C14_ScanEnclosesEveryScannedOpaquePixel ==
    scanDone =>
        /\ (scanBox = NullRect) <=> (ScannedPixels = {})
        /\ scanBox # NullRect => MinimalBox(scanBox, ScannedPixels)

\* The page scanned a surface with an opaque pixel off the stride and two on
\* it, and returned a box with a positive width.
C14_Witness ==
    /\ scanDone
    /\ variant = "page"
    /\ scanCanvas # ScannedPixels
    /\ scanBox # NullRect
    /\ scanBox.w > 0

-----------------------------------------------------------------------------
(* SpecStroke: a brush stroke (pointer-down at strokeFrom, pointer-move to *)
(* strokeTo), then the same path with the eraser, then the scan, for every *)
(* pair of sizes the sliders can be set to up to a bound.                  *)

MinSize == 5         \* part_000:487, ImageDetailModal.tsx:375, 392: min="5"
MaxSize == 16        \* the sliders are moved up to MaxSize (max="100")

Sizes == MinSize..MaxSize

\* The line width a size gives in the current editor.
lineWidthOf(size) == IF variant = "page" THEN pageLineWidth(size) ELSE size

\* Pointer-down at from then pointer-move to to with the tool: the surface
\* after both draw calls, for the rasterizer outcomes hit1 and hit2.
strokePath(cv, tool, from, to, lineWidth, hit1, hit2) ==
    IF variant = "page"
    THEN draw(draw(cv, tool, from, from, lineWidth, hit1),
              tool, to, from, lineWidth, hit2)
    ELSE modalDraw(modalDraw(cv, tool, from, from, TRUE, lineWidth, hit1),
                   tool, to, from, FALSE, lineWidth, hit2)

InitStroke ==
    /\ PermIdle
    /\ GenIdle
    /\ strokeFrom \in EditPoints
    /\ strokeTo \in EditPoints
    /\ strokeBrush \in Sizes
    /\ strokeEraser \in Sizes
    /\ strokeCanvas = {}
    /\ strokePainted = {}
    /\ strokeStep = 0
    /\ SubIdle
    /\ NormIdle
    /\ ScanIdle
    /\ \E v \in {"page", "modal"} : EditorInit(v)

PaintStroke ==
    /\ strokeStep = 0
    /\ LET w == lineWidthOf(strokeBrush) IN
         \E hit1 \in SUBSET strokeEdge(strokeFrom, strokeFrom, w),
            hit2 \in SUBSET strokeEdge(strokeFrom, strokeTo, w) :
           strokeCanvas' = strokePath(strokeCanvas, "brush", strokeFrom, strokeTo, w,
                                      hit1, hit2)
    /\ strokePainted' = strokeCanvas'
    /\ strokeStep' = 1
    /\ UNCHANGED <<strokeFrom, strokeTo, strokeBrush, strokeEraser, subVars, normVars,
                   scanVars, editorVars, editVars, permVars, genVars>>

EraseStroke ==
    /\ strokeStep = 1
    /\ LET w == lineWidthOf(strokeEraser) IN
         \E hit1 \in SUBSET strokeEdge(strokeFrom, strokeFrom, w),
            hit2 \in SUBSET strokeEdge(strokeFrom, strokeTo, w) :
           strokeCanvas' = strokePath(strokeCanvas, "eraser", strokeFrom, strokeTo, w,
                                      hit1, hit2)
    /\ strokeStep' = 2
    /\ UNCHANGED <<strokeFrom, strokeTo, strokeBrush, strokeEraser, strokePainted,
                   subVars, normVars, scanVars, editorVars, editVars, permVars, genVars>>

\* The scan at submission (part_000:290, ImageDetailModal.tsx:281).
ScanStroke ==
    /\ strokeStep = 2
    /\ scanCanvas' = strokeCanvas
    /\ scanBox' = IF variant = "page" THEN getMaskBoundingBox(strokeCanvas)
                                      ELSE getCanvasBoundingBox(strokeCanvas)
    /\ scanDone' = TRUE
    /\ strokeStep' = 3
    /\ UNCHANGED <<strokeFrom, strokeTo, strokeBrush, strokeEraser, strokeCanvas,
                   strokePainted, subVars, normVars, editorVars, editVars, permVars, genVars>>

NextStroke == PaintStroke \/ EraseStroke \/ ScanStroke

SpecStroke == InitStroke /\ [][NextStroke]_vars

\* The edit zones a surface contributes at submission with no rectangle
\* selected.
strokeZones(cv) ==
    IF variant = "page" THEN allZones(<<>>, cv) ELSE finalSelections(<<>>, cv)

\* C15: after a brush stroke and an eraser stroke along the same path with
\* an eraser at least as wide, the surface has no opaque pixel, the scan
\* returns no result and the stroke contributes no edit zone.
C15_ErasedStrokeLeavesNothing ==
    (strokeStep = 3 /\ strokeEraser >= strokeBrush) =>
        /\ strokeCanvas = {}
        /\ scanBox = NullRect
        /\ strokeZones(strokeCanvas) = <<>>

\* The part of C15 the code satisfies: when the eraser's line is at least
\* three pixels wider than the brush's, every pixel the brush touched lies
\* wholly inside the eraser's stroke and nothing is left.
C15_WiderEraserLeavesNothing ==
    (strokeStep = 3 /\ lineWidthOf(strokeEraser) >= lineWidthOf(strokeBrush) + 3) =>
        /\ strokeCanvas = {}
        /\ scanBox = NullRect
        /\ strokeZones(strokeCanvas) = <<>>

\* A stroke that painted a pixel was erased with a wider eraser.
C15_ErasedWitness ==
    /\ strokeStep = 3
    /\ strokePainted # {}
    /\ lineWidthOf(strokeEraser) >= lineWidthOf(strokeBrush) + 3
    /\ strokeCanvas = {}

-----------------------------------------------------------------------------
(* SpecSub: subtractRect applied to every pair of rectangles of a bounded  *)
(* integer grid (w >= 0, h >= 0).                                          *)

TestRects ==
    { Rect(x, y, w, h) : x \in 0..MaxPos, y \in 0..MaxPos,
                         w \in 0..MaxDim, h \in 0..MaxDim }

InitSub ==
    /\ ra \in TestRects
    /\ rb \in TestRects
    /\ res = <<>>
    /\ subDone = FALSE
    /\ NormIdle
    /\ ScanIdle
    /\ StrokeIdle
    /\ PermIdle
    /\ GenIdle
    /\ EditorIdle

ApplySubtract ==
    /\ ~subDone
    /\ res' = subtractRect(ra, rb)
    /\ subDone' = TRUE
    /\ UNCHANGED <<ra, rb, normVars, scanVars, strokeVars, editorVars, editVars, permVars, genVars>>

NextSub == ApplySubtract


SpecSub == InitSub /\ [][NextSub]_vars

-----------------------------------------------------------------------------
(* Geometry used to state the claims about subtractRect.                   *)

\* The unit cells of the integer grid that a rectangle covers.
Cells(r) ==
    { <<i, j>> : i \in r.x..(r.x + r.w - 1), j \in r.y..(r.y + r.h - 1) }

Area(r) == r.w * r.h

\* Intersection bounds as the claims state them.
NoOverlap(a, b) ==
    \/ Max(a.x, b.x) >= Min(a.x + a.w, b.x + b.w)
    \/ Max(a.y, b.y) >= Min(a.y + a.h, b.y + b.h)

Contains(b, a) ==
    /\ b.x <= a.x
    /\ b.y <= a.y
    /\ a.x + a.w <= b.x + b.w
    /\ a.y + a.h <= b.y + b.h

Inside(r, a) == Contains(a, r) /\ r.w >= 0 /\ r.h >= 0

RECURSIVE SumArea(_)
SumArea(s) == IF s = <<>> THEN 0 ELSE Area(Head(s)) + SumArea(Tail(s))

\* C1: when a and b do not overlap (edge-touching included), subtractRect(a, b)
\* is exactly the one-element list [a].
C1_NoOverlapReturnsA ==
    (subDone /\ NoOverlap(ra, rb)) => res = <<ra>>

C1_Witness ==
    /\ subDone
    /\ NoOverlap(ra, rb)
    /\ ra.w > 0 /\ ra.h > 0 /\ rb.w > 0 /\ rb.h > 0
    /\ ra.x + ra.w = rb.x          \* the two rectangles touch along an edge
    /\ res = <<ra>>

\* C2 as stated: when b fully contains a (w >= 0, h >= 0), subtractRect(a, b)
\* is the empty list.
C2_ContainedReturnsEmpty ==
    (subDone /\ Contains(rb, ra)) => res = <<>>

\* C2 amended: when b fully contains a and a has positive area, subtractRect(a, b)
\* is the empty list; a zero-area a is returned unchanged as [a].
C2_ContainedPositiveAreaReturnsEmpty ==
    (subDone /\ Contains(rb, ra)) =>
        IF ra.w > 0 /\ ra.h > 0 THEN res = <<>> ELSE res = <<ra>>

C2_Witness ==
    /\ subDone
    /\ Contains(rb, ra)
    /\ ra.w > 0 /\ ra.h > 0
    /\ ra # rb
    /\ res = <<>>

\* C3: subtractRect(a, b) is the exact geometric difference: the returned
\* rectangles are pairwise non-overlapping, each lies inside a, none shares a
\* cell with b, every cell of a outside b is covered by exactly one of them, and
\* their areas sum to area(a) minus the area of the intersection.
C3_ExactDifference ==
    subDone =>
        /\ \A i \in 1..Len(res) : Inside(res[i], ra)
        /\ \A i \in 1..Len(res) : Cells(res[i]) \cap Cells(rb) = {}
        /\ \A i, j \in 1..Len(res) :
              i # j => Cells(res[i]) \cap Cells(res[j]) = {}
        /\ \A c \in Cells(ra) \ Cells(rb) :
              Cardinality({ i \in 1..Len(res) : c \in Cells(res[i]) }) = 1
        /\ SumArea(res) = Area(ra) - Cardinality(Cells(ra) \cap Cells(rb))

C3_Witness ==
    /\ subDone
    /\ Len(res) = 4                \* b is a hole strictly inside a
    /\ Cells(ra) \cap Cells(rb) # {}

-----------------------------------------------------------------------------
(* Claims about the selection gestures, checked under Spec.                *)

\* The axis-aligned bounding box of two points.
BoundingBox(p, q) ==
    Rect(Min(p.x, q.x), Min(p.y, q.y),
         Max(p.x, q.x) - Min(p.x, q.x), Max(p.y, q.y) - Min(p.y, q.y))

NonNegative(r) == r.w >= 0 /\ r.h >= 0

\* r is dropped by the noise threshold.
SubThreshold(r) == r.w <= 5 \/ r.h <= 5

\* The in-order concatenation of subtractRect(r, new) over the rectangles r of sel.
RECURSIVE ConcatSubtract(_, _)
ConcatSubtract(sel, new) ==
    IF sel = <<>> THEN <<>>
    ELSE subtractRect(Head(sel), new) \o ConcatSubtract(Tail(sel), new)

\* The last event was a pointer-up that ended a drag of the select tool.
SelectUp == up.done /\ up.select

\* ... and the drag was one gesture: pointer-down, moves and key events only.
SelectGesture == SelectUp /\ gest.on

AllNonNegative ==
    /\ \A i \in 1..Len(selections) : NonNegative(selections[i])
    /\ currentSelection # NullRect => NonNegative(currentSelection)

\* C4 as stated: every rectangle of the SelectionSet and the provisional
\* rectangle has w >= 0 and h >= 0, and the provisional rectangle is always the
\* bounding box of the drag anchor and the current point.
C4_ProvisionalAlwaysBoundingBox ==
    /\ AllNonNegative
    /\ (ptr.known /\ currentSelection # NullRect) =>
          currentSelection = BoundingBox(dragStart, ptr.pos)

\* C4 amended: every rectangle of the SelectionSet and the provisional rectangle
\* has w >= 0 and h >= 0; after every pointer-down or pointer-move that the select
\* tool handles, the provisional rectangle is the bounding box of the drag anchor
\* and that event's point (a pointer-move dropped by the pan tool, by Space in the
\* modal or by another tool leaves it as it was).
C4_ProvisionalBoundingBoxWhenRouted ==
    /\ AllNonNegative
    /\ ptr.routed => currentSelection = BoundingBox(dragStart, ptr.pos)

C4_Witness ==
    /\ ptr.routed
    /\ ptr.pos.x < dragStart.x      \* dragging towards the origin
    /\ currentSelection.w > 5
    /\ selections # <<>>

\* C5: a pointer-up in the select tool whose provisional rectangle has w <= 5 or
\* h <= 5 leaves the SelectionSet exactly as it was before the pointer-up,
\* whatever the modifiers.
C5_SubThresholdCommitIsNoOp ==
    (SelectUp /\ SubThreshold(up.rect)) => selections = up.sel

C5_Witness ==
    /\ SelectUp
    /\ up.rect.w > 0 /\ up.rect.w <= 5 /\ up.rect.h > 5
    /\ up.alt
    /\ selections # <<>>
    /\ selections = up.sel

\* C6 as stated: a complete pointer-down / pointer-up gesture in the select tool
\* whose rectangle is zero-area or sub-threshold leaves the SelectionSet equal to
\* what it was before the pointer-down.
C6_ClickLeavesSelections ==
    (SelectGesture /\ SubThreshold(up.rect)) => selections = gest.sel

\* C6 amended: such a gesture leaves the SelectionSet equal to what it was before
\* the pointer-down when a modifier was held at the pointer-down, and empty when
\* none was: in replace mode the pointer-down itself clears the set.
C6_ClickClearsInReplaceMode ==
    (SelectGesture /\ SubThreshold(up.rect)) =>
        selections = IF gest.modAtDown THEN gest.sel ELSE <<>>

C6_Witness ==
    /\ SelectGesture
    /\ SubThreshold(up.rect)
    /\ ~gest.modAtDown
    /\ gest.sel # <<>>
    /\ selections = <<>>

\* C7 as stated: a drag over the threshold committed with Alt held makes the
\* SelectionSet the in-order concatenation of subtractRect(r, new) over the set
\* as it stood before the drag began, whether Alt was pressed before the
\* pointer-down or during the drag.
C7_AltSubtractsFromSetBeforeDrag ==
    (SelectGesture /\ up.alt /\ ~SubThreshold(up.rect)) =>
        selections = ConcatSubtract(gest.sel, up.rect)

\* C7 amended: the SelectionSet becomes the in-order concatenation of
\* subtractRect(r, new) over the set as it stood at the pointer-up: the set from
\* before the drag when a modifier was held at the pointer-down, and the empty set
\* when none was (Alt pressed only during the drag subtracts from nothing).
C7_AltSubtractsFromSetAtUp ==
    /\ (SelectUp /\ up.alt /\ ~SubThreshold(up.rect)) =>
          selections = ConcatSubtract(up.sel, up.rect)
    /\ (SelectGesture /\ up.alt /\ ~SubThreshold(up.rect)) =>
          up.sel = IF gest.modAtDown THEN gest.sel ELSE <<>>

C7_Witness ==
    /\ SelectGesture
    /\ up.alt
    /\ ~SubThreshold(up.rect)
    /\ gest.modAtDown
    /\ Len(gest.sel) = 2
    /\ Len(selections) = 2
    /\ selections[1] # selections[2]

\* C8: a drag over the threshold with no modifier held at any point of the
\* gesture leaves the SelectionSet exactly [that rectangle].
C8_ReplaceLeavesOnlyNewRect ==
    (SelectGesture /\ gest.noMod /\ ~SubThreshold(up.rect)) =>
        selections = <<up.rect>>

C8_Witness ==
    /\ SelectGesture
    /\ gest.noMod
    /\ ~SubThreshold(up.rect)
    /\ gest.sel # <<>>
    /\ selections = <<up.rect>>

\* C9: a drag over the threshold with Shift held, and Alt not held, throughout
\* leaves the SelectionSet as it was before the drag with the new rectangle
\* appended at the end.
C9_ShiftAppends ==
    (SelectGesture /\ gest.shiftOnly /\ ~SubThreshold(up.rect)) =>
        selections = Append(gest.sel, up.rect)

C9_Witness ==
    /\ SelectGesture
    /\ gest.shiftOnly
    /\ ~SubThreshold(up.rect)
    /\ gest.sel # <<>>
    /\ selections = Append(gest.sel, up.rect)

-----------------------------------------------------------------------------
(* Claims about submission, checked under SpecEdit.                        *)

\* C10: submitting with an empty SelectionSet and a fully transparent
\* PaintSurface fails with the "select or paint an area" condition and starts no
\* external edit call; in the page editor loading is false afterwards and no cost
\* is added.
C10_EmptySubmitBlocked ==
    (submit.done /\ submit.empty) =>
        /\ error = "noRegion"
        /\ editCalls = submit.calls
        /\ ~inFlight
        /\ variant = "page" => (~loading /\ consumed = submit.consumed)

C10_Witness ==
    /\ submit.done
    /\ submit.empty
    /\ variant = "page"
    /\ error = "noRegion"
    /\ editCalls = 1
    /\ consumed = 1
    /\ ~loading

\* C11 as stated: every coordinate of every EDIT_ZONE annotation emitted at
\* submission is an integer in [0, 1000).
C11_ZonesBelowThousand ==
    \A i \in 1..Len(zones) : \A k \in 1..4 : zones[i][k] \in 0..999

\* C11 amended: every coordinate is an integer in [0, 1000]; a rectangle that
\* reaches the right or bottom edge of the image gets x2 = 1000 or y2 = 1000.
C11_ZonesWithinThousand ==
    \A i \in 1..Len(zones) : \A k \in 1..4 : zones[i][k] \in 0..1000

C11_Witness ==
    /\ submit.done
    /\ Len(zones) = 2
    /\ zones[1][3] = 1000
    /\ zones[2][3] < 1000
    /\ canvas # {}

\* C13: the resolved zone list is the normalization of the SelectionSet in its
\* stored order followed by the paint bounding box when there is one; a single
\* selection {0, 0, W/2, H/2} yields exactly (0, 0, 500, 500); each zone has
\* y1 <= y2 and x1 <= x2.
C13_ZonesAreNormalizedMaskInOrder ==
    (submit.done /\ ~submit.empty) =>
        LET W == IF variant = "page" THEN Image.naturalWidth ELSE ModalImage.width
            H == IF variant = "page" THEN Image.naturalHeight ELSE ModalImage.height
            xs == { q.x : q \in submit.cv }
            ys == { q.y : q \in submit.cv }
            box == IF submit.cv = {} THEN <<>>
                   ELSE << Rect(MinOf(xs), MinOf(ys),
                                MaxOf(xs) - MinOf(xs), MaxOf(ys) - MinOf(ys)) >>
            list == submit.sel \o box
        IN  /\ Len(zones) = Len(submit.sel) + (IF submit.cv = {} THEN 0 ELSE 1)
            /\ \A i \in 1..Len(zones) :
                  /\ zones[i][1] = (list[i].y * 1000) \div H
                  /\ zones[i][2] = (list[i].x * 1000) \div W
                  /\ zones[i][3] = ((list[i].y + list[i].h) * 1000) \div H
                  /\ zones[i][4] = ((list[i].x + list[i].w) * 1000) \div W
                  /\ zones[i][1] <= zones[i][3]
                  /\ zones[i][2] <= zones[i][4]
            /\ (submit.sel = << Rect(0, 0, W \div 2, H \div 2) >> /\ submit.cv = {}) =>
                  zones = << <<0, 0, 500, 500>> >>

C13_Witness ==
    /\ submit.done
    /\ inFlight
    /\ Len(submit.sel) = 2
    /\ submit.sel[1] # submit.sel[2]
    /\ submit.cv # {}
    /\ Len(zones) = 3
    /\ zones[1] # zones[2]

-----------------------------------------------------------------------------
(* Claims about normalization, checked under SpecNorm.                     *)

\* C12: normalizing the rectangle {0, 0, W, H} that spans the full image yields
\* the edit zone (y1, x1, y2, x2) = (0, 0, 1000, 1000) for every image size
\* W, H > 0.
C12_FullImageIsFullGrid ==
    (normDone /\ normRect = Rect(0, 0, normImg.w, normImg.h)) =>
        normZone = <<0, 0, 1000, 1000>>

C12_Witness ==
    /\ normDone
    /\ normRect = Rect(0, 0, normImg.w, normImg.h)
    /\ normImg.w = 3
    /\ normImg.h = 4
    /\ normZone = <<0, 0, 1000, 1000>>

-----------------------------------------------------------------------------
(* Pan, abandoned rectangles, modifier flags and the reset of the tool     *)
(* state: properties of Spec.                                              *)

PagePointerEvent == PageMouseDown \/ PageMouseMove \/ PageMouseUp \/ PageMouseLeave

\* C16: in the full-page editor, while the active tool is pan, no
\* pointer-down, pointer-move, pointer-up or pointer-leave changes the
\* SelectionSet or the PaintSurface.
\* Stated by contraposition: a step taken under pan that changes either of
\* them is not a pointer event of the page.
C16_PanPointerEventsChangeNothing ==
    [][(activeTool = "pan" /\ <<selections, canvas>>' # <<selections, canvas>>)
          => ~PagePointerEvent]_vars

\* A pointer-up arrived under pan while a select drag over the threshold was
\* still open and paint was on the surface; the SelectionSet is as it was.
C16_Witness ==
    /\ variant = "page"
    /\ activeTool = "pan"
    /\ up.done
    /\ up.rect # NullRect
    /\ up.rect.w > Threshold
    /\ up.rect.h > Threshold
    /\ selections = up.sel
    /\ canvas # {}

ModalPointerEvent == ModalMouseDown \/ ModalMouseMove \/ ModalMouseUp

\* C17: in the modal editor, while Space is held, no pointer-down,
\* pointer-move or pointer-up changes the SelectionSet or the PaintSurface,
\* also when Space was pressed in the middle of a drag or a stroke.
\* Stated by contraposition, as C16.
C17_SpacePointerEventsChangeNothing ==
    [][(isSpacePressed /\ <<selections, canvas>>' # <<selections, canvas>>)
          => ~ModalPointerEvent]_vars

\* C18: a provisional rectangle that was in progress when the tool was
\* switched, or when a new drag began, is never committed afterwards: the
\* pointer-up that ends it leaves the SelectionSet as it found it.
C18_AbandonedRectangleIsNeverCommitted ==
    (up.done /\ up.stale) => selections = up.sel

\* The modifier flag of key k.
flag(k) ==
    CASE k = "Alt" -> isAltPressed
      [] k = "Shift" -> isShiftPressed
      [] k = "Space" -> isSpacePressed

\* A key-down of k that is not a repeat, and a key-up of k, in either editor.
OwnKeyDown(k) ==
    /\ pageKeyDown(k, FALSE) \/ \E inTextarea \in BOOLEAN : modalKeyDown(k, FALSE, inTextarea)
    /\ ~ptr'.repeat
OwnKeyUp(k) == pageKeyUp(k) \/ modalKeyUp(k)

\* C19 (as stated): a modifier flag changes only on a non-repeat key-down
\* of its own key (to true) and on a key-up of its own key (to false); a
\* repeat key-down and the pointer events change no flag.
C19_FlagsChangeOnlyOnOwnKey ==
    [][\A k \in Keys :
          /\ (~flag(k) /\ flag(k)') => OwnKeyDown(k)
          /\ (flag(k) /\ ~flag(k)') => OwnKeyUp(k)]_vars

\* C19 (amended): as stated, except that the reset the modal runs when it
\* opens also sets Alt and Space to false.
C19_FlagsChangeOnlyOnOwnKeyOrReset ==
    [][\A k \in Keys :
          /\ (~flag(k) /\ flag(k)') => OwnKeyDown(k)
          /\ (flag(k) /\ ~flag(k)') => (OwnKeyUp(k) \/ (k # "Shift" /\ OpenModal))]_vars

\* A key-down flagged as repeat arrived in the open modal while no flag was
\* set and left every flag false.
C19_Witness ==
    /\ variant = "modal"
    /\ ptr.repeat
    /\ ~isAltPressed
    /\ ~isShiftPressed
    /\ ~isSpacePressed

\* The source image of an editor changes: the page loads a file, the modal
\* opens on an image.
SourceImageChanges == handleFileChange \/ OpenModal

\* C20: whenever the source image of an editor changes, its ToolState is
\* reset: the active tool is select and every modifier flag is false.
C20_ImageChangeResetsToolState ==
    [][SourceImageChanges =>
          /\ activeTool' = "select"
          /\ ~isAltPressed'
          /\ ~isShiftPressed'
          /\ ~isSpacePressed']_vars

-----------------------------------------------------------------------------
(* Clearing, the result image and the outcome of a submission: properties  *)
(* of SpecEdit.                                                            *)

\* C21: after the source image changes, and after the user's explicit
\* clear, the SelectionSet is empty and the PaintSurface fully transparent,
\* and a submission that follows at once fails with the no-region
\* condition and starts no external call.
C21_ClearedMaskBlocksSubmission ==
    /\ ptr.cleared => (selections = <<>> /\ canvas = {})
    /\ (submit.done /\ submit.cleared) =>
          /\ submit.empty
          /\ error = "noRegion"
          /\ editCalls = submit.calls
          /\ ~inFlight
          /\ variant = "page" => ~loading

\* The page editor, after an edit that succeeded, was cleared and submitted
\* at once.
C21_Witness ==
    /\ variant = "page"
    /\ consumed = 1
    /\ ptr.cleared
    /\ submit.done
    /\ submit.cleared
    /\ error = "noRegion"

-----------------------------------------------------------------------------
(* The members of the SelectionSet: properties of Spec.                    *)

OverThreshold(r) == r.w > Threshold /\ r.h > Threshold

\* C22 (as stated): in every reachable state every rectangle of the
\* SelectionSet has w > 5 and h > 5.
C22_EveryMemberOverThreshold ==
    \A i \in 1..Len(selections) : OverThreshold(selections[i])

\* C22 (amended): every rectangle of the SelectionSet has w > 0 and h > 0,
\* and every rectangle a replace or additive commit puts into it has w > 5
\* and h > 5; the strips a subtractive commit leaves can be narrower.
C22_CommittedRectanglesOverThreshold ==
    /\ \A i \in 1..Len(selections) : selections[i].w > 0 /\ selections[i].h > 0
    /\ (SelectUp /\ ~up.alt) =>
          \A i \in (Len(up.sel) + 1)..Len(selections) : OverThreshold(selections[i])

\* An additive drag that stayed under the threshold ended on a set that
\* holds a strip of width or height 5 or less: nothing was appended.
C22_Witness ==
    /\ SelectUp
    /\ ~up.alt
    /\ up.rect # NullRect
    /\ ~OverThreshold(up.rect)
    /\ selections = up.sel
    /\ \E i \in 1..Len(selections) : ~OverThreshold(selections[i])

-----------------------------------------------------------------------------
(* Order of the SelectionSet: the subtractive commit and the resolution of  *)
(* the edit zones, each applied to a SelectionSet and to a reordering of it. *)

\* The reorderings of a sequence.
Reorderings(seq) ==
    LET n == Len(seq)
        bij == { f \in [1..n -> 1..n] : \A i, j \in 1..n : f[i] = f[j] => i = j }
    IN  { [i \in 1..n |-> seq[f[i]]] : f \in bij }

InitPerm ==
    /\ SubIdle
    /\ NormIdle
    /\ ScanIdle
    /\ StrokeIdle
    /\ EditorInit("page")
    /\ GenIdle
    /\ permS \in Masks
    /\ permP \in Reorderings(permS)
    /\ permB \in DragRects
    /\ permCanvas \in SUBSET SamplePixels
    /\ permOut = NoPermOut
    /\ permDone = {}

\* part_000:203-208: the Alt commit of permB, on each order.
CommitBothOrders ==
    /\ "commit" \notin permDone
    /\ permOut' = [permOut EXCEPT !.commitS = commitSelection(permS, permB, TRUE),
                                  !.commitP = commitSelection(permP, permB, TRUE)]
    /\ permDone' = permDone \cup {"commit"}
    /\ UNCHANGED <<permS, permP, permB, permCanvas, subVars, normVars, scanVars,
                   strokeVars, editorVars, editVars, genVars>>

\* part_000:290-306: the zones resolved at submission, on each order.
ResolveBothOrders ==
    /\ "zones" \notin permDone
    /\ permOut' = [permOut EXCEPT !.zonesS = coordString(allZones(permS, permCanvas)),
                                  !.zonesP = coordString(allZones(permP, permCanvas))]
    /\ permDone' = permDone \cup {"zones"}
    /\ UNCHANGED <<permS, permP, permB, permCanvas, subVars, normVars, scanVars,
                   strokeVars, editorVars, editVars, genVars>>

NextPerm == CommitBothOrders \/ ResolveBothOrders

SpecPerm == InitPerm /\ [][NextPerm]_vars

\* The region a list of rectangles covers, and the members of a list.
Region(list) == UNION { Cells(list[i]) : i \in 1..Len(list) }
Members(list) == { list[i] : i \in 1..Len(list) }

\* C23: the geometry of the mask does not depend on the order of the
\* SelectionSet: the subtractive commit of a rectangle covers the same region
\* on a SelectionSet and on any reordering of it, and the set of edit zones
\* resolved at submission is the same for both.
C23_OrderIndependence ==
    /\ ("commit" \in permDone) => Region(permOut.commitS) = Region(permOut.commitP)
    /\ ("zones" \in permDone) => Members(permOut.zonesS) = Members(permOut.zonesP)

\* Both results are computed on a reordering that moved a rectangle, the
\* subtraction cut something and left something, and a painted region is
\* among the zones.
C23_Witness ==
    /\ permDone = {"commit", "zones"}
    /\ permP # permS
    /\ permOut.commitS # permS
    /\ permOut.commitS # <<>>
    /\ permOut.commitS # permOut.commitP
    /\ permCanvas # {}
    /\ Len(permOut.zonesS) = Len(permS) + 1

-----------------------------------------------------------------------------
(* The strips of subtractRect.                                              *)

\* The intersection of two overlapping rectangles.
Intersection(a, b) ==
    LET x1 == Max(a.x, b.x)
        y1 == Max(a.y, b.y)
    IN  Rect(x1, y1, Min(a.x + a.w, b.x + b.w) - x1, Min(a.y + a.h, b.y + b.h) - y1)

\* The four strips around the intersection i, in the order top, bottom, left,
\* right: top and bottom as wide as a, left and right as high as i.
Strips(a, i) ==
    << Rect(a.x, a.y, a.w, i.y - a.y),
       Rect(a.x, i.y + i.h, a.w, (a.y + a.h) - (i.y + i.h)),
       Rect(a.x, i.y, i.x - a.x, i.h),
       Rect(i.x + i.w, i.y, (a.x + a.w) - (i.x + i.w), i.h) >>

NonEmpty(r) == r.w > 0 /\ r.h > 0

\* The intersection holds one whole edge of a and stops short of the opposite
\* edge.
CoversOneFullEdge(a, i) ==
    \/ i.w = a.w /\ i.h < a.h /\ (i.y = a.y \/ i.y + i.h = a.y + a.h)
    \/ i.h = a.h /\ i.w < a.w /\ (i.x = a.x \/ i.x + i.w = a.x + a.w)

\* C24: when a and b overlap, subtractRect(a, b) is the list of the non-empty
\* strips among top, bottom, left, right, in that order (so between 0 and 4
\* rectangles), and exactly one rectangle when b covers a along one full edge;
\* a = {0,0,10,10}, b = {0,0,10,5} gives [{0,5,10,5}].
C24_StripsInFixedOrder ==
    /\ (subDone /\ ~NoOverlap(ra, rb)) =>
          LET i == Intersection(ra, rb)
          IN  /\ res = SelectSeq(Strips(ra, i), NonEmpty)
              /\ Len(res) \in 0..4
              /\ CoversOneFullEdge(ra, i) => Len(res) = 1
    /\ subDone => subtractRect(Rect(0, 0, 10, 10), Rect(0, 0, 10, 5)) = <<Rect(0, 5, 10, 5)>>

\* b lies strictly inside a: the four strips are returned.
C24_Witness ==
    /\ subDone
    /\ ~NoOverlap(ra, rb)
    /\ Len(res) = 4
    /\ res[1].w = ra.w /\ res[2].w = ra.w
    /\ res[3].h = rb.h /\ res[4].h = rb.h

\* C25: the subtractRect of the page and the subtractRect of the modal return
\* the same list for every pair of rectangles of the grid, rectangle for
\* rectangle and in the same order.
C25_PageAndModalSubtractRectAgree ==
    subDone => res = modalSubtractRect(ra, rb)

\* A pair that overlaps and leaves three strips, the same from both functions.
C25_Witness ==
    /\ subDone
    /\ ~NoOverlap(ra, rb)
    /\ Len(res) = 3
    /\ Len(modalSubtractRect(ra, rb)) = 3

-----------------------------------------------------------------------------
(* The page editor while the image has no layout.                           *)

\* C26: while the displayed width or height of the image is zero the
\* coordinate mapper returns (0, 0), so a drag of the select tool whose
\* pointer events are all handled in that condition is anchored at (0, 0) with
\* an empty provisional rectangle, and its pointer-up commits nothing: the
\* SelectionSet is the one the pointer-up found.
C26_NoLayoutCommitsNothing ==
    /\ \A e \in PagePoints : getPointerPos(e, FALSE) = Pt(0, 0)
    /\ (variant = "page" /\ gest.on /\ gest.noLayout /\ isDrawing) =>
          /\ dragStart = Pt(0, 0)
          /\ currentSelection = Rect(0, 0, 0, 0)
    /\ (variant = "page" /\ SelectGesture /\ gest.noLayout) =>
          /\ up.rect = Rect(0, 0, 0, 0)
          /\ selections = up.sel

\* An additive drag on a non-empty SelectionSet, handled without layout from
\* pointer-down to pointer-up: the set is the one the drag began with.
C26_Witness ==
    /\ variant = "page"
    /\ SelectGesture
    /\ gest.noLayout
    /\ gest.shiftOnly
    /\ gest.sel # <<>>
    /\ selections = gest.sel

-----------------------------------------------------------------------------
(* The page editor around the awaited edit.                                 *)

\* C27: in the page editor a successful edit does not clear the mask: the step
\* that sets the result image and the load that displays it leave the
\* PaintSurface and the SelectionSet as they were.
C27_SuccessfulEditKeepsMask ==
    [][(variant = "page" /\ resultImage' /\ <<selections, canvas>>' # <<selections, canvas>>)
         => ~(editImageSettlesWith("image") \/ handleImageLoad)]_vars

\* C28: in the page editor a run of handleEdit that finds no region ends at
\* once with loading false and the no-region error; a run that awaits editImage
\* keeps loading true exactly until the call settles, and then loading is
\* false, error is set exactly when no result image was produced, and
\* resultImage and the consumed total change only on success.
C28_EveryRunEndsNotLoading ==
    [][/\ (handleEdit /\ ~inFlight') =>
              /\ ~loading'
              /\ error' = "noRegion"
              /\ UNCHANGED <<resultImage, consumed>>
       /\ (handleEdit /\ inFlight') =>
              /\ loading'
              /\ error' = "none"
              /\ UNCHANGED <<resultImage, consumed>>
       /\ \A o \in EditOutcomes :
            editImageSettlesWith(o) =>
              /\ loading /\ ~loading'
              /\ (error' # "none") <=> (o # "image")
              /\ IF o = "image"
                 THEN resultImage' /\ consumed' = consumed + 1
                 ELSE UNCHANGED <<resultImage, consumed>>
       /\ (variant = "page" /\ loading') => inFlight'
      ]_vars

\* A run that awaited editImage has ended in failure: not loading, the error
\* shown, no result image and nothing consumed.
C28_Witness ==
    /\ variant = "page"
    /\ editCalls = 1
    /\ ~inFlight
    /\ ~loading
    /\ error = "failed"
    /\ ~resultImage
    /\ consumed = 0

-----------------------------------------------------------------------------
(* The modal around the awaited edit. The promise of the external call      *)
(* settles: each awaited call is given weak fairness.                       *)

SpecEditFair ==
    /\ InitEdit
    /\ [][NextEdit]_vars
    /\ WF_vars(editImageSettles)
    /\ WF_vars(onGenerateEditSettles)

\* C29: in the modal every submission that sets isProcessing to true leads to
\* isProcessing false and the modal closed, whether onGenerateEdit resolves or
\* rejects.
C29_ProcessingAlwaysEnds ==
    (variant = "modal" /\ loading /\ inFlight) ~> (~loading /\ ~isOpen)

-----------------------------------------------------------------------------
(* GenerateView: runs of handleGenerate on one session. The images of the    *)
(* session are a sequence of image ids; a session that does not exist yet is *)
(* the empty sequence (part_001:176 treats the two alike). Image 0 is an     *)
(* image the session held before, image n the result of the n-th run.        *)

InitGen ==
    /\ SubIdle
    /\ NormIdle
    /\ ScanIdle
    /\ StrokeIdle
    /\ PermIdle
    /\ EditorInit("page")
    /\ activeRequests = 0
    /\ sessions \in { <<>>, <<0>> }
    /\ sessionDb = sessions
    /\ requests = [r \in Slots |-> NoRequest]
    /\ genHist = [NoGenHist EXCEPT !.saved = { sessions[i] : i \in 1..Len(sessions) }]

\* part_001:153-162, up to the await. The handler is the closure of the
\* render it was created in: snap is the value of sessions it reads at
\* part_001:171.
handleGenerate ==
    \E r \in Slots :
        /\ requests[r].pc = "idle"
        /\ activeRequests < MAX_CONCURRENT
        /\ genHist.started < MaxGen
        /\ activeRequests' = activeRequests + 1
        /\ requests' = [requests EXCEPT ![r] =
                           [pc |-> "generating", snap |-> sessions,
                            image |-> genHist.started + 1]]
        /\ genHist' = [genHist EXCEPT !.started = @ + 1,
                                      !.overlapped = @ \/ activeRequests > 0]
        /\ UNCHANGED <<sessions, sessionDb, subVars, normVars, scanVars, strokeVars,
                       permVars, editorVars, editVars>>

\* part_001:162-165 and 189: generateImages settles with images, with an empty
\* list or by throwing; only the first goes on.
generateImagesSettles ==
    \E r \in Slots, outcome \in { "images", "empty", "throw" } :
        /\ requests[r].pc = "generating"
        /\ IF outcome = "images"
           THEN /\ requests' = [requests EXCEPT ![r].pc = "counting"]
                /\ UNCHANGED activeRequests
           ELSE /\ requests' = [requests EXCEPT ![r] = NoRequest]
                /\ activeRequests' = activeRequests - 1
        /\ UNCHANGED <<sessions, sessionDb, genHist, subVars, normVars, scanVars,
                       strokeVars, permVars, editorVars, editVars>>

\* part_001:171-179: the record to save, from the sessions of the closure.
sessionToSave(req) == Append(req.snap, req.image)

\* part_001:170-180: incrementProjectImageCount resolves; the record is built
\* and saveSession is called.
incrementProjectImageCountSettles ==
    \E r \in Slots :
        /\ requests[r].pc = "counting"
        /\ requests' = [requests EXCEPT ![r].pc = "saving"]
        /\ UNCHANGED <<activeRequests, sessions, sessionDb, genHist, subVars, normVars,
                       scanVars, strokeVars, permVars, editorVars, editVars>>

\* credits.ts:479-493 (store.put replaces the record of that id), then
\* part_001:181-189: setSessions replaces the session, finally
\* setActiveRequests(prev => prev - 1).
saveSessionSettles ==
    \E r \in Slots :
        /\ requests[r].pc = "saving"
        /\ sessionDb' = sessionToSave(requests[r])
        /\ sessions' = sessionToSave(requests[r])
        /\ genHist' = [genHist EXCEPT !.saved = @ \cup { requests[r].image }]
        /\ requests' = [requests EXCEPT ![r] = NoRequest]
        /\ activeRequests' = activeRequests - 1
        /\ UNCHANGED <<subVars, normVars, scanVars, strokeVars, permVars, editorVars,
                       editVars>>

NextGen ==
    \/ handleGenerate
    \/ generateImagesSettles
    \/ incrementProjectImageCountSettles
    \/ saveSessionSettles

SpecGen == InitGen /\ [][NextGen]_vars

\* C30: when runs of handleGenerate overlap on one session, the session record
\* in the store, once no run is in flight, holds every image that a run has
\* saved to the session: no save drops what another run saved.
C30_OverlappingSavesKeepAllImages ==
    (genHist.overlapped /\ activeRequests = 0) =>
        genHist.saved \subseteq Members(sessionDb)

====
